---------------------------- MODULE Spec2Model ----------------------------
(***************************************************************************)
(* A model of persp_proj.py: class FaceRenderer (the loader, the matrix    *)
(* builders, the event handling and the render loop of run) and the main   *)
(* block that constructs a renderer and runs it.                           *)
(*                                                                         *)
(* Numbers.  The program computes in binary floating point.  The model     *)
(* computes in decimal fixed point: a real number r is held as the integer *)
(* r * Scale.  Angles, the zoom value, matrix entries and homogeneous      *)
(* coordinates are all held this way; screen coordinates are plain         *)
(* integers, as int() makes them in the program.                           *)
(***************************************************************************)
EXTENDS Integers, Sequences, FiniteSets, TLC

(***************************************************************************)
(* Bounds of the model (not of the program: the program bounds none of     *)
(* these).                                                                 *)
(***************************************************************************)
\* each angle stays within MaxAngle steps of 0.1 rad on either side of 0
MaxAngle == 1
\* z_val stays at or below MaxZoom steps of 0.01
MaxZoom == 5
\* at most MaxBatch events are delivered by one pygame.event.get()
MaxBatch == 2

(***************************************************************************)
(* The projection configuration and the canvas, set by __init__.           *)
(***************************************************************************)
fov == 90
aspect_ratio == 1
\* near is 0.1 and far is 100: both are held in tenths, so that the sums and
\* products of perspective_projection_matrix stay exact
nearTenths == 1
farTenths == 1000
width == 800
height == 600

(***************************************************************************)
(* Fixed point arithmetic.                                                 *)
(***************************************************************************)
Scale == 10 ^ 4

Abs(a) == IF a < 0 THEN -a ELSE a

\* the quotient rounded toward zero, as int() rounds
TDiv(a, b) ==
    IF (a >= 0) = (b > 0) THEN Abs(a) \div Abs(b) ELSE -(Abs(a) \div Abs(b))

\* the decimal literal n/d, e.g. Fx(1, 10) for 0.1
Fx(n, d) == TDiv(n * Scale, d)

\* the product of two fixed point numbers
FMul(a, b) == TDiv(a * b, Scale)

RECURSIVE Series(_, _, _, _)
\* term + the following terms of the sine (n = 2 first) or cosine (n = 1
\* first) series of x: each term is the one before times -x^2/(n(n+1))
Series(x, term, n, last) ==
    IF n > last THEN term
    ELSE term + Series(x, -TDiv(FMul(FMul(term, x), x), n * (n + 1)), n + 2, last)

\* np.radians of a whole number of degrees, halved when half = 2
Radians(deg, half) == TDiv(deg * 31416, 180 * half)

\* the angles the program can pass to np.sin and np.cos within the bounds
Angles ==
    {k * Fx(1, 10) : k \in -MaxAngle..MaxAngle} \cup {Radians(fov, 2)}

\* np.sin and np.cos of a fixed point angle; the two series are summed once
\* for each angle and looked up afterwards
SinTable == [theta \in Angles |-> Series(theta, theta, 2, 12)]
CosTable == [theta \in Angles |-> Series(theta, Scale, 1, 11)]
Sin(theta) == SinTable[theta]
Cos(theta) == CosTable[theta]

(***************************************************************************)
(* 4x4 matrices and homogeneous vectors.                                   *)
(***************************************************************************)
\* numpy's @ on two 4x4 matrices
MatMul(A, B) ==
    [i \in 1..4 |-> [j \in 1..4 |->
        TDiv(A[i][1] * B[1][j] + A[i][2] * B[2][j]
             + A[i][3] * B[3][j] + A[i][4] * B[4][j], Scale)]]

\* numpy's @ on a 4x4 matrix and a vector of 4
MatVec(A, v) ==
    [i \in 1..4 |->
        TDiv(A[i][1] * v[1] + A[i][2] * v[2] + A[i][3] * v[3] + A[i][4] * v[4],
             Scale)]

\* 1 / np.tan is taken as cos / sin
perspective_projection_matrix ==
    LET half == Radians(fov, 2)
        f == TDiv(Scale * Cos(half), Sin(half))
    IN  << << TDiv(f, aspect_ratio), 0, 0, 0 >>,
           << 0, f, 0, 0 >>,
           << 0, 0,
              TDiv((farTenths + nearTenths) * Scale, nearTenths - farTenths),
              TDiv(2 * farTenths * nearTenths * Scale,
                   (nearTenths - farTenths) * 10) >>,
           << 0, 0, -Scale, 0 >> >>

translate_matrix(tx, ty, tz) ==
    << << Scale, 0, 0, tx >>,
       << 0, Scale, 0, ty >>,
       << 0, 0, Scale, tz >>,
       << 0, 0, 0, Scale >> >>

\* rotate_x_matrix with the body of rotate_z_matrix pasted in
rotate_x_matrix_about_z(theta) ==
    LET c == Cos(theta)
        s == Sin(theta)
    IN  << << c, -s, 0, 0 >>,
           << s, c, 0, 0 >>,
           << 0, 0, Scale, 0 >>,
           << 0, 0, 0, Scale >> >>

rotate_x_matrix(theta) ==
    LET c == Cos(theta)
        s == Sin(theta)
    IN  << << Scale, 0, 0, 0 >>,
           << 0, c, -s, 0 >>,
           << 0, s, c, 0 >>,
           << 0, 0, 0, Scale >> >>

rotate_y_matrix(theta) ==
    LET c == Cos(theta)
        s == Sin(theta)
    IN  << << c, 0, s, 0 >>,
           << 0, Scale, 0, 0 >>,
           << -s, 0, c, 0 >>,
           << 0, 0, 0, Scale >> >>

rotate_z_matrix(theta) ==
    LET c == Cos(theta)
        s == Sin(theta)
    IN  << << c, -s, 0, 0 >>,
           << s, c, 0, 0 >>,
           << 0, 0, Scale, 0 >>,
           << 0, 0, 0, Scale >> >>


(***************************************************************************)
(* The input sources.  A source is a sequence of lines; a line is the      *)
(* sequence of its comma separated numeric fields, and << >> is a blank    *)
(* line.  Fields are whole numbers.                                        *)
(***************************************************************************)
VerticesFiles ==
    { << <<0, 0, 5>>, << >>, <<0, 0, 0>>, <<1, 1, 2>> >>,
      << <<0, 0, 5>>, <<1, 2>> >> }

IndicesFiles ==
    { << <<0, 1, 2>>, << >>, <<2, 1, 0>> >>,
      << <<0, -1, 1>>, <<0, 1, 5>> >> }

Modes == {"points", "wireframe", "solid"}

RECURSIVE ReadLines(_, _)
\* one "with open ... for line in f" loop of load_data: blank lines are
\* skipped, a line that does not unpack into three fields raises ValueError
\* and ends the loop; conv is 1 for int fields and Scale for float fields
ReadLines(lines, conv) ==
    IF lines = << >> THEN [error |-> "none", items |-> << >>]
    ELSE LET line == Head(lines)
             rest == ReadLines(Tail(lines), conv)
         IN  IF line = << >> THEN rest
             ELSE IF Len(line) # 3 THEN [error |-> "ValueError", items |-> << >>]
             ELSE IF rest.error # "none" THEN rest
             ELSE [error |-> "none",
                   items |-> << <<line[1] * conv, line[2] * conv, line[3] * conv>> >>
                             \o rest.items]

load_data(vertices_file, indices_file) ==
    LET vs == ReadLines(vertices_file, Scale)
        is == ReadLines(indices_file, 1)
    IN  IF vs.error # "none" THEN [error |-> vs.error, vertices |-> << >>, indices |-> << >>]
        ELSE IF is.error # "none" THEN [error |-> is.error, vertices |-> vs.items, indices |-> << >>]
        ELSE [error |-> "none", vertices |-> vs.items, indices |-> is.items]

\* InitialTransform with z_val = 0
InitialTransformZeroZoom ==
    [angle_x |-> 0, angle_y |-> 0, angle_z |-> 0, z_val |-> 0]

\* the interaction state __init__ sets, once the data is loaded
InitialTransform ==
    [angle_x |-> 0, angle_y |-> 0, angle_z |-> 0, z_val |-> Fx(4, 100)]

(***************************************************************************)
(* Projection of one vertex, as the draw loops of run do it.               *)
(***************************************************************************)
\* P @ T @ R @ np.array(vertex + (1,)): numpy's @ associates to the left
Transformed(P, T, R, vertex) ==
    MatVec(MatMul(MatMul(P, T), R), <<vertex[1], vertex[2], vertex[3], Scale>>)

\* ScreenCoord without the shift to the middle of the canvas
ScreenCoordNoShift(num, w, size) ==
    TDiv(num * (size \div 2), w)

\* int(c * size / 2 + size / 2) for c = num / w, with w # 0
ScreenCoord(num, w, size) ==
    TDiv(num * (size \div 2) + (size \div 2) * w, w)

\* the perspective divide and the mapping to the screen.  Dividing by w = 0
\* makes numpy yield nan (0 / 0) or inf, and int() then raises: ValueError
\* for nan, OverflowError for inf; x is converted first
ProjectVertex(P, T, R, vertex) ==
    LET tv == Transformed(P, T, R, vertex)
    IN  IF tv[4] = 0
        THEN [fault |-> IF tv[1] = 0 THEN "ValueError" ELSE "OverflowError",
              point |-> << >>]
        ELSE [fault |-> "none",
              point |-> <<ScreenCoord(tv[1], tv[4], width),
                          ScreenCoord(tv[2], tv[4], height)>>]

(***************************************************************************)
(* The state.                                                              *)
(***************************************************************************)
VARIABLES
    vertices, indices,          \* self.vertices, self.indices
    mode,                       \* the argument of run
    angle_x, angle_y, angle_z,  \* self.angle_x, self.angle_y, self.angle_z
    z_val,                      \* self.z_val
    running,                    \* the local flag of run
    pc,                         \* where the program is
    drained,                    \* events handled in this tick's for loop
    projection_matrix, translation_matrix, rotation_matrix,  \* locals of run
    cursor,                     \* the next primitive of the draw loop
    drawn,                      \* screen points of the last primitive drawn
    fault,                      \* the exception that ended the program
    acquired, released          \* pygame.init/set_mode and pygame.quit calls

vars == <<vertices, indices, mode, angle_x, angle_y, angle_z, z_val, running,
          pc, drained, projection_matrix, translation_matrix, rotation_matrix,
          cursor, drawn, fault, acquired, released>>

mesh == <<vertices, indices, mode>>
transform == <<angle_x, angle_y, angle_z, z_val>>
matrices == <<projection_matrix, translation_matrix, rotation_matrix>>

\* the state when FaceRenderer(vertices_file, indices_file) has returned or
\* raised: load_data runs first, and pygame is initialised only after it
Init ==
    \E vf \in VerticesFiles, xf \in IndicesFiles, m \in Modes :
        LET data == load_data(vf, xf) IN
        /\ vertices = data.vertices
        /\ indices = data.indices
        /\ mode = m
        /\ angle_x = InitialTransform.angle_x
        /\ angle_y = InitialTransform.angle_y
        /\ angle_z = InitialTransform.angle_z
        /\ z_val = InitialTransform.z_val
        /\ running = FALSE
        /\ pc = IF data.error = "none" THEN "constructed" ELSE "load_failed"
        /\ fault = data.error
        /\ acquired = IF data.error = "none" THEN 1 ELSE 0
        /\ released = 0
        /\ drained = 0
        /\ projection_matrix = << >>
        /\ translation_matrix = << >>
        /\ rotation_matrix = << >>
        /\ cursor = 1
        /\ drawn = << >>

(***************************************************************************)
(* The events pygame.event.get() can deliver.                              *)
(***************************************************************************)
Keys == {"K_UP", "K_DOWN", "K_LEFT", "K_RIGHT", "K_z", "K_x", "K_a"}
Buttons == {1, 4, 5}

Events ==
    {[type |-> "QUIT"], [type |-> "MOUSEMOTION"]}
    \cup {[type |-> "KEYDOWN", key |-> k] : k \in Keys}
    \cup {[type |-> "MOUSEBUTTONDOWN", button |-> b] : b \in Buttons}

\* the model's bounds on the state an event may lead to
WithinBounds(ax, ay, az, z) ==
    /\ Abs(ax) <= MaxAngle * Fx(1, 10)
    /\ Abs(ay) <= MaxAngle * Fx(1, 10)
    /\ Abs(az) <= MaxAngle * Fx(1, 10)
    /\ z <= MaxZoom * Fx(1, 100)

\* KeyDown with the signs of K_LEFT and K_RIGHT exchanged
KeyDownLeftRightSwapped(key) ==
    /\ angle_x' = IF key = "K_UP" THEN angle_x + Fx(1, 10)
                  ELSE IF key = "K_DOWN" THEN angle_x - Fx(1, 10)
                  ELSE angle_x
    /\ angle_y' = IF key = "K_LEFT" THEN angle_y - Fx(1, 10)
                  ELSE IF key = "K_RIGHT" THEN angle_y + Fx(1, 10)
                  ELSE angle_y
    /\ angle_z' = IF key = "K_z" THEN angle_z + Fx(1, 10)
                  ELSE IF key = "K_x" THEN angle_z - Fx(1, 10)
                  ELSE angle_z
    /\ UNCHANGED <<z_val, running>>

\* the KEYDOWN branch of the event loop
KeyDown(key) ==
    /\ angle_x' = IF key = "K_UP" THEN angle_x + Fx(1, 10)
                  ELSE IF key = "K_DOWN" THEN angle_x - Fx(1, 10)
                  ELSE angle_x
    /\ angle_y' = IF key = "K_LEFT" THEN angle_y + Fx(1, 10)
                  ELSE IF key = "K_RIGHT" THEN angle_y - Fx(1, 10)
                  ELSE angle_y
    /\ angle_z' = IF key = "K_z" THEN angle_z + Fx(1, 10)
                  ELSE IF key = "K_x" THEN angle_z - Fx(1, 10)
                  ELSE angle_z
    /\ UNCHANGED <<z_val, running>>

\* MouseButtonDown without the test that keeps z_val from going below 0
MouseButtonDownNoClamp(button) ==
    /\ z_val' = IF button = 4 THEN z_val - Fx(1, 100)
                ELSE IF button = 5 THEN z_val + Fx(1, 100)
                ELSE z_val
    /\ UNCHANGED <<angle_x, angle_y, angle_z, running>>

\* the MOUSEBUTTONDOWN branch of the event loop
MouseButtonDown(button) ==
    /\ z_val' = IF button = 4
                THEN (IF z_val - Fx(1, 100) <= 0 THEN 0 ELSE z_val - Fx(1, 100))
                ELSE IF button = 5 THEN z_val + Fx(1, 100)
                ELSE z_val
    /\ UNCHANGED <<angle_x, angle_y, angle_z, running>>

\* InEventLoop for a program that also handles events between draw calls
InEventLoopOrDrawLoop == pc \in {"events", "draw"}

\* the program is in the for loop over the events of this tick
InEventLoop == pc = "events"

(***************************************************************************)
(* The actions.                                                            *)
(***************************************************************************)
\* renderer.run(mode): running = True, and the while loop is reached
Run ==
    /\ pc = "constructed"
    /\ running' = TRUE
    /\ pc' = "loop"
    /\ UNCHANGED <<mesh, transform, drained, matrices, cursor, drawn, fault,
                   acquired, released>>

\* the while test passes: pygame.event.get() is called and the for loop over
\* what it returned begins.  Which events it returned is settled as the loop
\* reaches each of them
EnterTick ==
    /\ pc = "loop"
    /\ running
    /\ pc' = "events"
    /\ drained' = 0
    /\ UNCHANGED <<mesh, transform, running, matrices, cursor, drawn, fault,
                   acquired, released>>

\* one iteration of the for loop, on the next event e of the drained list
HandleEvent(e) ==
    /\ InEventLoop
    /\ drained < MaxBatch
    /\ IF e.type = "QUIT"
       THEN running' = FALSE /\ UNCHANGED transform
       ELSE IF e.type = "KEYDOWN" THEN KeyDown(e.key)
       ELSE IF e.type = "MOUSEBUTTONDOWN" THEN MouseButtonDown(e.button)
       ELSE UNCHANGED <<transform, running>>
    /\ WithinBounds(angle_x', angle_y', angle_z', z_val')
    /\ drained' = drained + 1
    /\ UNCHANGED <<mesh, pc, matrices, cursor, drawn, fault, acquired, released>>

\* the drained list is exhausted (the count of its events is of no use from
\* here on): the canvas is cleared, the three matrices are built from the
\* current state and the draw loop of the mode begins
BuildMatrices ==
    /\ pc = "events"
    /\ drawn' = << >>
    /\ projection_matrix' = perspective_projection_matrix
    /\ translation_matrix' = translate_matrix(0, 0, 10 * z_val)
    /\ rotation_matrix' =
           MatMul(MatMul(rotate_x_matrix(angle_x), rotate_y_matrix(angle_y)),
                  rotate_z_matrix(angle_z))
    /\ cursor' = 1
    /\ drained' = 0
    /\ pc' = "draw"
    /\ UNCHANGED <<mesh, transform, running, fault, acquired, released>>

\* an exception leaves run: nothing after the raising statement is executed
Raise(exception) ==
    /\ fault' = exception
    /\ pc' = "crashed"
    /\ UNCHANGED <<mesh, transform, running, drained, matrices, cursor, drawn,
                   acquired, released>>

\* one iteration of the draw loop of mode 'points'
DrawPoint ==
    /\ pc = "draw"
    /\ mode = "points"
    /\ cursor <= Len(vertices)
    /\ LET p == ProjectVertex(projection_matrix, translation_matrix,
                              rotation_matrix, vertices[cursor])
       IN  IF p.fault # "none" THEN Raise(p.fault)
           ELSE /\ drawn' = <<p.point>>
                /\ cursor' = cursor + 1
                /\ UNCHANGED <<mesh, transform, running, pc, drained, matrices,
                               fault, acquired, released>>

\* self.vertices[n] succeeds for -len <= n < len; a negative n counts from
\* the end of the list
IndexOk(n) == -Len(vertices) <= n /\ n < Len(vertices)
VertexAt(n) == IF n >= 0 THEN vertices[n + 1] ELSE vertices[Len(vertices) + n + 1]

\* one iteration of the draw loop of mode 'wireframe': the three vertices are
\* looked up, then projected one after the other, then the outline is drawn
DrawTriangle ==
    /\ pc = "draw"
    /\ mode = "wireframe"
    /\ cursor <= Len(indices)
    /\ LET index == indices[cursor] IN
       IF ~(IndexOk(index[1]) /\ IndexOk(index[2]) /\ IndexOk(index[3]))
       THEN Raise("IndexError")
       ELSE LET p1 == ProjectVertex(projection_matrix, translation_matrix,
                                    rotation_matrix, VertexAt(index[1]))
                p2 == ProjectVertex(projection_matrix, translation_matrix,
                                    rotation_matrix, VertexAt(index[2]))
                p3 == ProjectVertex(projection_matrix, translation_matrix,
                                    rotation_matrix, VertexAt(index[3]))
            IN  IF p1.fault # "none" THEN Raise(p1.fault)
                ELSE IF p2.fault # "none" THEN Raise(p2.fault)
                ELSE IF p3.fault # "none" THEN Raise(p3.fault)
                ELSE /\ drawn' = <<p1.point, p2.point, p3.point>>
                     /\ cursor' = cursor + 1
                     /\ UNCHANGED <<mesh, transform, running, pc, drained,
                                    matrices, fault, acquired, released>>

\* the draw loop of the mode has ended, or the mode is neither of the two and
\* the message is printed
DrawFinished ==
    /\ pc = "draw"
    /\ \/ mode = "points" /\ cursor > Len(vertices)
       \/ mode = "wireframe" /\ cursor > Len(indices)
       \/ mode \notin {"points", "wireframe"}

\* the end of the tick: the zoom text, the flip and the clock.  The locals of
\* the tick are dead from here on: the next tick binds each of them again
\* before it reads any, and the model forgets them
Present ==
    /\ DrawFinished
    /\ pc' = "loop"
    /\ projection_matrix' = << >>
    /\ translation_matrix' = << >>
    /\ rotation_matrix' = << >>
    /\ cursor' = 1
    /\ drawn' = << >>
    /\ UNCHANGED <<mesh, transform, running, drained, fault, acquired, released>>

\* the while test fails: pygame.quit() and run returns
PygameQuit ==
    /\ pc = "loop"
    /\ ~running
    /\ released' = released + 1
    /\ pc' = "done"
    /\ UNCHANGED <<mesh, transform, running, drained, matrices, cursor, drawn,
                   fault, acquired>>

Next ==
    \/ Run
    \/ EnterTick
    \/ \E e \in Events : HandleEvent(e)
    \/ BuildMatrices
    \/ DrawPoint
    \/ DrawTriangle
    \/ Present
    \/ PygameQuit

Spec == Init /\ [][Next]_vars

(***************************************************************************)
(* Definitions the properties share.                                       *)
(***************************************************************************)
ScrollUp == [type |-> "MOUSEBUTTONDOWN", button |-> 4]
ScrollDown == [type |-> "MOUSEBUTTONDOWN", button |-> 5]
Key(k) == [type |-> "KEYDOWN", key |-> k]

Max(a, b) == IF a >= b THEN a ELSE b

\* the three matrices, built from the interaction state as it stands
CurrentMatrices ==
    << perspective_projection_matrix,
       translate_matrix(0, 0, 10 * z_val),
       MatMul(MatMul(rotate_x_matrix(angle_x), rotate_y_matrix(angle_y)),
              rotate_z_matrix(angle_z)) >>

\* w' of a vertex under the matrices of this tick
WPrime(vertex) ==
    Transformed(projection_matrix, translation_matrix, rotation_matrix, vertex)[4]

\* a vertex on the view axis
OnAxis(vertex) == vertex[1] = 0 /\ vertex[2] = 0

\* the vertices of the primitive the draw loop handled last / handles next
PrimitiveAt(n) ==
    IF mode = "points" THEN <<vertices[n]>>
    ELSE <<VertexAt(indices[n][1]), VertexAt(indices[n][2]), VertexAt(indices[n][3])>>

\* the draw loop is about to handle a primitive one of whose vertices has
\* w' = 0 (and, in wireframe mode, whose indices can all be looked up)
DegenerateNext ==
    /\ pc = "draw"
    /\ \/ mode = "points" /\ cursor <= Len(vertices)
       \/ /\ mode = "wireframe" /\ cursor <= Len(indices)
          /\ \A j \in 1..3 : IndexOk(indices[cursor][j])
    /\ \E j \in DOMAIN PrimitiveAt(cursor) : WPrime(PrimitiveAt(cursor)[j]) = 0

\* some face holds an index outside [0, vertexCount)
HasOutOfRangeIndex ==
    \E n \in DOMAIN indices : \E j \in 1..3 :
        indices[n][j] < 0 \/ indices[n][j] >= Len(vertices)

(***************************************************************************)
(* The properties.                                                         *)
(***************************************************************************)

\* C1: z_val is never below 0, whatever events arrive in whatever order, and
\* a scroll-up event handled at z_val = 0 leaves z_val at 0.
C1_ZoomNeverNegative ==
    /\ z_val >= 0
    /\ [][/\ z_val' >= 0
          /\ (z_val = 0 /\ HandleEvent(ScrollUp)) => z_val' = 0]_vars

\* scroll-up events have brought z_val down to 0 in the event loop
C1_Witness == pc = "events" /\ drained > 0 /\ z_val = 0

\* C2, as stated: the constructed renderer, before any event is handled, has
\* all three angles 0 and z_val = 0.
C2_InitialZoomZero ==
    pc = "constructed" =>
        angle_x = 0 /\ angle_y = 0 /\ angle_z = 0 /\ z_val = 0

\* C2, amended: the constructed renderer, before any event is handled, has
\* all three angles 0 and z_val = 0.04.
C2_InitialTransform ==
    pc = "constructed" =>
        angle_x = 0 /\ angle_y = 0 /\ angle_z = 0 /\ z_val = Fx(4, 100)

\* a renderer has been constructed and run has not been called yet
C2_Witness == pc = "constructed" /\ acquired = 1 /\ Len(vertices) > 0

\* C3: when a face holds an index outside [0, vertexCount), loading ends in a
\* ValidationError: a mesh with such a face is never held by a renderer that
\* is constructed, runs its loop or raises IndexError in it.
C3_OutOfRangeRejectedAtLoad ==
    HasOutOfRangeIndex =>
        /\ pc = "load_failed"
        /\ fault = "ValidationError"

\* C4: a primitive with a vertex whose w' is 0 is skipped: nothing is drawn
\* for it, no exception is raised and the draw loop goes on to the next
\* primitive.
C4_DegenerateVertexSkipped ==
    [][DegenerateNext =>
          /\ pc' = "draw"
          /\ cursor' = cursor + 1
          /\ drawn' = drawn
          /\ fault' = "none"]_vars

\* C5: once run is called the loop is Running until a QUIT event is handled;
\* the tick that handles QUIT runs to its end and the loop then stops for
\* good.  So while running holds the program is inside the loop, and once it
\* does not the program is finishing the tick or has left the loop through
\* pygame.quit().
C5_QuitEndsLoopAfterTick ==
    pc \notin {"constructed", "load_failed"} =>
        IF running THEN pc \in {"loop", "events", "draw"}
        ELSE pc \in {"events", "draw", "loop", "done"}

\* what the event table says event e makes of the interaction state
TableEffect(e) ==
    IF e = Key("K_UP") THEN <<angle_x + Fx(1, 10), angle_y, angle_z, z_val>>
    ELSE IF e = Key("K_DOWN") THEN <<angle_x - Fx(1, 10), angle_y, angle_z, z_val>>
    ELSE IF e = Key("K_LEFT") THEN <<angle_x, angle_y + Fx(1, 10), angle_z, z_val>>
    ELSE IF e = Key("K_RIGHT") THEN <<angle_x, angle_y - Fx(1, 10), angle_z, z_val>>
    ELSE IF e = Key("K_z") THEN <<angle_x, angle_y, angle_z + Fx(1, 10), z_val>>
    ELSE IF e = Key("K_x") THEN <<angle_x, angle_y, angle_z - Fx(1, 10), z_val>>
    ELSE IF e = ScrollUp
        THEN <<angle_x, angle_y, angle_z, Max(0, z_val - Fx(1, 100))>>
    ELSE IF e = ScrollDown THEN <<angle_x, angle_y, angle_z, z_val + Fx(1, 100)>>
    ELSE <<angle_x, angle_y, angle_z, z_val>>

\* C6: handling an event changes the one field of the interaction state the
\* event table names, by the step the table states, and no other; a QUIT or
\* any other event changes none; no event changes the mesh.
C6_EventEffects ==
    [][\A e \in Events :
          HandleEvent(e) => transform' = TableEffect(e) /\ UNCHANGED mesh]_vars

\* events have changed a rotation angle and the zoom
C6_Witness ==
    /\ pc = "events" /\ drained > 0
    /\ angle_x = Fx(1, 10) /\ angle_y = -Fx(1, 10)
    /\ z_val = Fx(5, 100)

\* C7: with fov 90, aspect ratio 1, near 0.1, far 100, an 800x600 canvas and
\* all three angles 0, every vertex (0, 0, z) that is drawn is drawn at
\* (400, 300), at every zoom and so at zoom 0.
C7_AxisVertexAtCentre ==
    (pc = "draw" /\ drawn # << >>
        /\ angle_x = 0 /\ angle_y = 0 /\ angle_z = 0) =>
        \A j \in DOMAIN drawn :
            OnAxis(PrimitiveAt(cursor - 1)[j]) => drawn[j] = <<400, 300>>

\* vertex (0, 0, 5) has been drawn at zoom 0 with no rotation
C7_Witness ==
    /\ pc = "draw" /\ mode = "points" /\ cursor = 2
    /\ vertices[1] = <<0, 0, 5 * Scale>>
    /\ angle_x = 0 /\ angle_y = 0 /\ angle_z = 0 /\ z_val = 0
    /\ drawn = << <<400, 300>> >>

\* some vertex of the mesh is mapped to different screen points by
\* P @ T @ R and by P @ R @ T, for the matrices of this tick
SwapDiffers ==
    \E n \in DOMAIN vertices :
        LET a == ProjectVertex(projection_matrix, translation_matrix,
                               rotation_matrix, vertices[n])
            b == ProjectVertex(projection_matrix, rotation_matrix,
                               translation_matrix, vertices[n])
        IN  a.fault = "none" /\ b.fault = "none" /\ a.point # b.point

\* C8, as stated: with non-zero zoom and any of the three angles non-zero,
\* swapping translation and rotation moves some vertex on the screen.
C8_SwapDiffersForAnyRotation ==
    (pc = "draw" /\ z_val # 0
        /\ (angle_x # 0 \/ angle_y # 0 \/ angle_z # 0)) => SwapDiffers

\* C8, amended: with non-zero zoom, swapping translation and rotation moves
\* some vertex on the screen when angle_x or angle_y is non-zero; when both
\* are 0 the two orders are the same transform, whatever angle_z is.
C8_SwapDiffersForTilt ==
    (pc = "draw" /\ z_val # 0) =>
        IF angle_x # 0 \/ angle_y # 0 THEN SwapDiffers
        ELSE MatMul(MatMul(projection_matrix, translation_matrix), rotation_matrix)
             = MatMul(MatMul(projection_matrix, rotation_matrix), translation_matrix)

\* a frame is being drawn with non-zero zoom and a rotation about x alone
C8_Witness ==
    /\ pc = "draw" /\ z_val # 0
    /\ angle_x # 0 /\ angle_y = 0 /\ angle_z = 0
    /\ cursor > 1

\* C9: the presentation resource is acquired at most once and is released
\* exactly once on every path by which the program stops.
C9_ReleasedOnEveryExit ==
    /\ acquired <= 1
    /\ released <= acquired
    /\ pc \in {"done", "crashed", "load_failed"} => released = acquired

\* what the draw loop has drawn last, were it drawn with matrices M
ExpectedDrawn(M) ==
    LET prim == PrimitiveAt(cursor - 1)
    IN  [j \in DOMAIN prim |-> ProjectVertex(M[1], M[2], M[3], prim[j]).point]

\* C10: while a frame is drawn, the three matrices are those of the
\* interaction state as it stands after all events of the tick, in every
\* mode and also in a tick without events, and what has been drawn was
\* drawn with them.
C10_FrameUsesCurrentState ==
    pc = "draw" =>
        LET M == CurrentMatrices
        IN  /\ matrices = M
            /\ drawn # << >> => drawn = ExpectedDrawn(M)

\* a primitive has been drawn after events changed the zoom and an angle
C10_Witness ==
    /\ pc = "draw" /\ cursor > 1 /\ drawn # << >>
    /\ z_val = Fx(3, 100) /\ angle_z # 0

=============================================================================
